---- MODULE Spec2Model ----
(***************************************************************************)
(* A state-machine model of ToolFusion.py, the tabbed utility suite.       *)
(*                                                                         *)
(* Text is a sequence of one-character strings, so that strip(), line      *)
(* splitting and lengths are computed and not assumed.  Every tab owns its *)
(* widgets; the tabs share the one call stack of the UI thread.            *)
(***************************************************************************)
EXTENDS Integers, Sequences, FiniteSets, TLC

VARIABLES
    \* ---- the UI thread
    stack,          \* the batch handlers in progress, innermost last: each
                    \* frame holds the handler's locals and loop position.
                    \* A handler that has reached QApplication.processEvents()
                    \* lets the clicks that are waiting run before it goes on.
    libCalls,       \* the PIL / PyPDF2 calls made by the latest step of the
                    \* image or PDF tab
    \* ---- ImageConverterTab
    imageList,      \* QListWidget imageList: sequence of file paths
    formatCombo,    \* formatCombo.currentText()
    widthSpin,      \* widthSpin.value()
    heightSpin,     \* heightSpin.value()
    aspectCheckbox, \* aspectCheckbox.isChecked()
    outputPathEdit, \* outputPathEdit.text()
    imgBar,         \* progressBar: [value, min, max]
    imgLog,         \* the lines the tab's latest step appended to logText
    imgDisk,        \* the image files on disk: path -> size, or Unreadable
    imgDone,        \* history: the processImages call that the tab's latest
                    \* step ended, NoCall when it ended none
    \* ---- PDFMergerSplitterTab
    pdfList,        \* QListWidget pdfList: sequence of file paths
    selectedPDFFile,\* self.selectedPDFFile, "" when none
    splitAllCheckbox,\* splitAllCheckbox.isChecked()
    startPageSpin,  \* startPageSpin.value()
    endPageSpin,    \* endPageSpin: [value, max]
    splitOutputEdit,\* splitOutputEdit.text()
    mergeBar,       \* mergeProgressBar: [value, min, max]
    splitBar,       \* splitProgressBar: [value, min, max]
    pdfLog,         \* the lines the tab's latest step appended to logText
    pdfDone,        \* history: the mergePDFs or splitPDF call that the tab's
                    \* latest step ended, NoCall when it ended none
    \* ---- ToDoListTab
    taskList,       \* QListWidget taskList: sequence of [text, struck]
    taskSel,        \* row of the selected item (1-based), 0 when none
    taskFile,       \* content of tasks.txt, or Absent
    todoLog,        \* logText lines appended by the latest handler call
    savedTasks,     \* history: the task strings written by the save that
                    \* produced the present tasks.txt, or NotSaved
    \* ---- PasswordGeneratorTab
    lengthSpin,     \* QSpinBox lengthSpin value
    checks,         \* the four QCheckBox states, by character class
    passwordResult, \* QLineEdit passwordResult text
    \* ---- ScreenshotOCRTab
    screenshot_path,\* self.screenshot_path: NoPath or "screenshot.png"
    shotFile,       \* what screenshot.png is on disk: "absent", "stale" (left
                    \* by an earlier session), "partial" (a save that threw)
                    \* or "captured" (written whole by this session)
    ocrProgress,    \* progressBar value
    imagePreview,   \* imageLabel shows a pixmap of the capture
    ocrResult,      \* the lines of the read-only ocrResult text box
    ocrInput        \* history: the state of the file the latest performOCR
                    \* handed to easyocr, "none" when it ran no OCR

varsTodo == <<taskList, taskSel, taskFile, todoLog, savedTasks>>

varsPwd == <<lengthSpin, checks, passwordResult>>

varsUi == <<stack, libCalls>>

varsImg ==
    <<imageList, formatCombo, widthSpin, heightSpin, aspectCheckbox,
      outputPathEdit, imgBar, imgLog, imgDisk, imgDone>>

varsOcr ==
    <<screenshot_path, shotFile, ocrProgress, imagePreview, ocrResult, ocrInput>>

varsPdf ==
    <<pdfList, selectedPDFFile, splitAllCheckbox, startPageSpin, endPageSpin,
      splitOutputEdit, mergeBar, splitBar, pdfLog, pdfDone>>

\* what the actions of the image tab, and of the PDF tab, leave alone
varsNotImg == <<varsPdf, varsTodo, varsPwd, varsOcr>>

varsNotPdf == <<varsImg, varsTodo, varsPwd, varsOcr>>

vars == <<varsUi, varsImg, varsPdf, varsTodo, varsPwd, varsOcr>>

----------------------------------------------------------------------------
(* Bounds *)

MaxTasks == 2       \* addTask is not offered beyond this many list entries
PwdLenCap == 5      \* the password length spin box is explored up to here
MaxImages == 2      \* the file dialog returns at most this many images
MaxDim == 4         \* image sides and the width/height spin boxes: 1..MaxDim
MaxNest == 2        \* batch handlers in progress at once
MaxPdfs == 2        \* Add PDFs is not offered beyond this many list entries
MaxPdfPages == 2    \* the pages of the longest PDF
MaxOcrLines == 4    \* the OCR tab's buttons are clicked while its text box
                    \* holds fewer lines than this

----------------------------------------------------------------------------
(* Text helpers: Python's str.strip, file.readlines and the save loop *)

Absent == <<"<absent>">>
NotSaved == <<<<"<not saved>">>>>

\* str.strip() removes leading and trailing whitespace; of the characters
\* the model uses, the blank and the line break are whitespace.
IsSpace(c) == c \in {" ", "\n"}

RECURSIVE LStrip(_)
LStrip(s) ==
    IF s = <<>> THEN <<>>
    ELSE IF IsSpace(Head(s)) THEN LStrip(Tail(s)) ELSE s

RECURSIVE RStrip(_)
RStrip(s) ==
    IF s = <<>> THEN <<>>
    ELSE IF IsSpace(s[Len(s)]) THEN RStrip(SubSeq(s, 1, Len(s) - 1)) ELSE s

Strip(s) == RStrip(LStrip(s))

\* f.readlines(): the content cut after every line break, the break kept; a
\* last line without a break is a line too.
RECURSIVE ReadLinesFrom(_, _)
ReadLinesFrom(content, cur) ==
    IF content = <<>> THEN (IF cur = <<>> THEN <<>> ELSE <<cur>>)
    ELSE IF Head(content) = "\n"
         THEN <<Append(cur, "\n")>> \o ReadLinesFrom(Tail(content), <<>>)
         ELSE ReadLinesFrom(Tail(content), Append(cur, Head(content)))

ReadLines(content) == ReadLinesFrom(content, <<>>)

\* the body of saveTasks' loop run over the first n entries:
\* f.write(item.text() + "\n") for each
RECURSIVE WriteLines(_, _)
WriteLines(texts, n) ==
    IF n = 0 THEN <<>>
    ELSE WriteLines(texts, n - 1) \o texts[n] \o <<"\n">>

Texts(list) == [k \in 1..Len(list) |-> list[k].text]

\* loadTasks' loop: one new, unstruck item per line, stripped
LoadedItems(content) ==
    LET lines == ReadLines(content)
    IN  [k \in 1..Len(lines) |-> [text |-> Strip(lines[k]), struck |-> FALSE]]

----------------------------------------------------------------------------
(* The UI thread and the widgets the tabs share the behaviour of *)

Idle == stack = <<>>

Top == stack[Len(stack)]

Pop == SubSeq(stack, 1, Len(stack) - 1)

\* A click is handled when no handler runs, or inside the processEvents()
\* call of the innermost batch handler.
CanHandle == IF Idle THEN TRUE ELSE Top.yielded

\* the UI thread before the first click
UiStart == stack = <<>> /\ libCalls = <<>>

\* QProgressBar.setMaximum(m) is setRange(min(minimum, m), m); a value that
\* no longer fits is reset to minimum - 1
SetMaximum(bar, m) ==
    LET mn == IF m < bar.min THEN m ELSE bar.min
    IN  [value |-> IF bar.value < mn - 1 \/ bar.value > m
                   THEN mn - 1 ELSE bar.value,
         min |-> mn, max |-> m]

\* QProgressBar.setValue(v) ignores a value outside the range, unless the
\* range is 0..0
SetValue(bar, v) ==
    IF (v > bar.max \/ v < bar.min) /\ (bar.max # 0 \/ bar.min # 0) THEN bar
    ELSE [bar EXCEPT !.value = v]

\* a progress bar as initUI leaves it: range 0..100, value 0
NewBar == [value |-> 0, min |-> 0, max |-> 100]

NoCall == [op |-> "none"]

----------------------------------------------------------------------------
(* ImageConverterTab *)

SpinMin == 1
WidthDefault == 800
HeightDefault == 600

\* the values the width and height spin boxes are explored over
Dims == SpinMin..MaxDim

ClampDim(v) == IF v > MaxDim THEN MaxDim ELSE v

\* formatCombo's items, abridged to the first two of JPEG, PNG, BMP, GIF
Formats == {"JPEG", "PNG"}

\* currentText().lower()
Lower(f) == CASE f = "JPEG" -> "jpeg" [] f = "PNG" -> "png"

ImagePaths == {"in/a.png", "in/a.jpg", "in/x.png"}

\* os.path.splitext(os.path.basename(file_path))[0]
BaseName(path) ==
    CASE path = "in/a.png" -> "a" [] path = "in/a.jpg" -> "a"
      [] path = "in/x.png" -> "x"

Unreadable == <<0, 0>>
NoOutput == <<"", "">>

\* the files the model's dialogs offer: two images and one file that
\* Image.open rejects
DefaultDisk ==
    [p \in ImagePaths |->
        CASE p = "in/a.png" -> <<MaxDim, 2>>
          [] p = "in/a.jpg" -> <<1, MaxDim>>
          [] p = "in/x.png" -> Unreadable]

\* what the output folder field can hold: nothing, a folder, or a path that
\* is no folder (every save into it throws)
OutputFolders == {"", "out", "nodir"}

\* what QFileDialog.getOpenFileNames can return: distinct files, or nothing
RECURSIVE SeqsOver(_, _)
SeqsOver(S, n) ==
    IF n = 0 THEN {<<>>}
    ELSE LET shorter == SeqsOver(S, n - 1)
         IN  shorter \cup
             {Append(q, x) : q \in {r \in shorter : Len(r) = n - 1}, x \in S}

Distinct(q) == \A j, k \in 1..Len(q) : j # k => q[j] # q[k]

ImageSelections == {q \in SeqsOver(ImagePaths, MaxImages) : Distinct(q)}

Abs(n) == IF n < 0 THEN -n ELSE n

\* PIL Image.thumbnail((x, y)) on an image of size w by h: its
\* preserve_aspect_ratio / round_aspect, in exact arithmetic.
\* round_aspect(number, key) = max(min(floor, ceil, key = key), 1)
RoundAspectX(w, h, y) ==
    LET f == (y * w) \div h
        c == IF (y * w) % h = 0 THEN f ELSE f + 1
        \* key(n) = |w/h - n/y|, times h*y
        key(n) == Abs(w * y - n * h)
        pick == IF key(c) < key(f) THEN c ELSE f
    IN  IF pick < 1 THEN 1 ELSE pick

RoundAspectY(w, h, x) ==
    LET f == (x * h) \div w
        c == IF (x * h) % w = 0 THEN f ELSE f + 1
        \* key(n) = 0 if n == 0 else |w/h - x/n|; compared cross-multiplied
        less == f # 0 /\ Abs(w * c - x * h) * f < Abs(w * f - x * h) * c
        pick == IF less THEN c ELSE f
    IN  IF pick < 1 THEN 1 ELSE pick

Thumbnail(size, x, y) ==
    LET w == size[1]
        h == size[2]
    IN  IF x >= w /\ y >= h THEN size
        ELSE IF x * h >= w * y THEN <<RoundAspectX(w, h, y), y>>
        ELSE <<x, RoundAspectY(w, h, x)>>

\* mutant: the box is handed over as (height, width)
ProcessedSize_Swapped(size, maintain_aspect, target_width, target_height) ==
    IF maintain_aspect THEN Thumbnail(size, target_height, target_width)
    ELSE <<target_width, target_height>>

\* lines 253-256: thumbnail inside the box, or resize to exactly the box
ProcessedSize(size, maintain_aspect, target_width, target_height) ==
    IF maintain_aspect THEN Thumbnail(size, target_width, target_height)
    ELSE <<target_width, target_height>>

\* the tab as constructed, beside the image files `disk`
ImgStart(disk) ==
    /\ imageList = <<>>
    /\ formatCombo = "JPEG"
    /\ widthSpin = ClampDim(WidthDefault)
    /\ heightSpin = ClampDim(HeightDefault)
    /\ aspectCheckbox = TRUE
    /\ outputPathEdit = ""
    /\ imgBar = NewBar
    /\ imgLog = <<>>
    /\ imgDisk = disk
    /\ imgDone = NoCall

InitImg == ImgStart(DefaultDisk)

\* Convert/Resize about to be clicked on one selected image: any image
\* size, any width and height of the spin boxes, either aspect setting
\* the tab with or without images selected and an output folder chosen,
\* Convert/Resize not clicked yet
InitImgInputs ==
    /\ imageList \in {<<>>, <<"in/a.png", "in/x.png">>}
    /\ formatCombo = "JPEG"
    /\ widthSpin = ClampDim(WidthDefault)
    /\ heightSpin = ClampDim(HeightDefault)
    /\ aspectCheckbox = TRUE
    /\ outputPathEdit \in {"", "out"}
    /\ imgBar = NewBar
    /\ imgLog = <<>>
    /\ imgDisk = DefaultDisk
    /\ imgDone = NoCall

InitResize ==
    /\ imageList = <<"in/a.png">>
    /\ formatCombo = "JPEG"
    /\ widthSpin \in Dims
    /\ heightSpin \in Dims
    /\ aspectCheckbox \in BOOLEAN
    /\ outputPathEdit = "out"
    /\ imgBar = NewBar
    /\ imgLog = <<>>
    /\ \E size \in Dims \X Dims :
          imgDisk = [p \in ImagePaths |->
                        IF p = "in/a.png" THEN size ELSE Unreadable]
    /\ imgDone = NoCall

selectImages ==
    /\ CanHandle
    /\ \E files \in ImageSelections :
          imageList' = IF files # <<>> THEN files ELSE imageList
    /\ imgLog' = <<>>
    /\ imgDone' = NoCall
    /\ libCalls' = <<>>
    /\ UNCHANGED <<stack, formatCombo, widthSpin, heightSpin, aspectCheckbox,
                   outputPathEdit, imgBar, imgDisk>>

\* Browse: the chosen folder, unless the dialog was cancelled
selectOutputFolder ==
    /\ CanHandle
    /\ \E folder \in {"", "out"} :
          outputPathEdit' = IF folder # "" THEN folder ELSE outputPathEdit
    /\ imgLog' = <<>>
    /\ imgDone' = NoCall
    /\ libCalls' = <<>>
    /\ UNCHANGED <<stack, imageList, formatCombo, widthSpin, heightSpin,
                   aspectCheckbox, imgBar, imgDisk>>

\* the user types into the output folder field
EditOutputPath ==
    /\ CanHandle
    /\ \E text \in OutputFolders : text # outputPathEdit /\ outputPathEdit' = text
    /\ imgLog' = <<>>
    /\ imgDone' = NoCall
    /\ libCalls' = <<>>
    /\ UNCHANGED <<stack, imageList, formatCombo, widthSpin, heightSpin,
                   aspectCheckbox, imgBar, imgDisk>>

\* the user picks another target format
EditFormat ==
    /\ CanHandle
    /\ \E f \in Formats : f # formatCombo /\ formatCombo' = f
    /\ imgLog' = <<>>
    /\ imgDone' = NoCall
    /\ libCalls' = <<>>
    /\ UNCHANGED <<stack, imageList, widthSpin, heightSpin, aspectCheckbox,
                   outputPathEdit, imgBar, imgDisk>>

\* processImages up to its loop: the two checks, the locals, the bar
processImages ==
    /\ CanHandle
    /\ Len(stack) < MaxNest
    /\ IF imageList = <<>>
       THEN /\ imgLog' = << <<"Error: No images selected.", "">> >>
            /\ UNCHANGED <<stack, imgBar>>
       ELSE IF outputPathEdit = ""
       THEN /\ imgLog' = << <<"Error: Please select an output folder.", "">> >>
            /\ UNCHANGED <<stack, imgBar>>
       ELSE /\ imgBar' = SetValue(SetMaximum(imgBar, Len(imageList)), 0)
            /\ stack' = Append(stack,
                 [op |-> "processImages", i |-> 0, total |-> Len(imageList),
                  yielded |-> FALSE,
                  target_format |-> Lower(formatCombo),
                  target_width |-> widthSpin, target_height |-> heightSpin,
                  maintain_aspect |-> aspectCheckbox,
                  output_folder |-> outputPathEdit,
                  list0 |-> imageList, att |-> <<>>])
            /\ imgLog' = <<>>
    /\ imgDone' = NoCall
    /\ libCalls' = <<>>
    /\ UNCHANGED <<imageList, formatCombo, widthSpin, heightSpin,
                   aspectCheckbox, outputPathEdit, imgDisk>>

\* what a processImages call did, when it ends: the list it was clicked on
\* (list0), the entries it went through (att), the bar as it leaves it
ImgSummary(f, crashed) ==
    [op |-> "processImages", crashed |-> crashed, total |-> f.total,
     list0 |-> f.list0, att |-> f.att, bar |-> imgBar.value,
     target_width |-> f.target_width, target_height |-> f.target_height,
     maintain_aspect |-> f.maintain_aspect]

\* one turn of the loop, lines 249-269.  imageList.item(i) is None when the
\* list has no row i: .text() raises outside the try and ends the handler.
\* Otherwise Image.open or save may throw (caught and logged), the bar is
\* set and processEvents() is reached.
ProcessImagesStep ==
    /\ ~Idle
    /\ Top.op = "processImages"
    /\ Top.i < Top.total
    /\ LET f == Top
           i == f.i
       IN  IF i + 1 > Len(imageList)
           THEN /\ stack' = Pop
                /\ imgDone' = ImgSummary(f, TRUE)
                /\ imgLog' = <<>>
                /\ libCalls' = <<>>
                /\ UNCHANGED imgBar
           ELSE LET file_path == imageList[i + 1]
                    original_size == imgDisk[file_path]
                    output_file == <<BaseName(file_path), f.target_format>>
                    ok == original_size # Unreadable
                          /\ f.output_folder = "out"
                    result ==
                        IF ok
                        THEN [file |-> file_path, ok |-> TRUE,
                              out |-> output_file,
                              size |-> ProcessedSize(original_size,
                                         f.maintain_aspect,
                                         f.target_width, f.target_height)]
                        ELSE [file |-> file_path, ok |-> FALSE,
                              out |-> NoOutput, size |-> Unreadable]
                IN  /\ imgLog' = IF ok THEN << <<"Processed: ", file_path>> >>
                                 ELSE << <<"Error processing ", file_path>> >>
                    /\ libCalls' =
                          IF original_size = Unreadable THEN <<"Image.open">>
                          ELSE <<"Image.open",
                                 IF f.maintain_aspect THEN "thumbnail"
                                 ELSE "resize",
                                 "save">>
                    /\ imgBar' = SetValue(imgBar, i + 1)
                    /\ stack' = Append(Pop,
                          [f EXCEPT !.i = i + 1, !.yielded = TRUE,
                                    !.att = Append(f.att, result)])
                    /\ imgDone' = NoCall
    /\ UNCHANGED <<imageList, formatCombo, widthSpin, heightSpin,
                   aspectCheckbox, outputPathEdit, imgDisk>>

\* the loop is over: processImages returns
ProcessImagesReturn ==
    /\ ~Idle
    /\ Top.op = "processImages"
    /\ Top.i = Top.total
    /\ stack' = Pop
    /\ imgDone' = ImgSummary(Top, FALSE)
    /\ imgLog' = <<>>
    /\ libCalls' = <<>>
    /\ UNCHANGED <<imageList, formatCombo, widthSpin, heightSpin,
                   aspectCheckbox, outputPathEdit, imgBar, imgDisk>>

NextImg ==
    \/ selectImages /\ UNCHANGED varsNotImg
    \/ selectOutputFolder /\ UNCHANGED varsNotImg
    \/ EditOutputPath /\ UNCHANGED varsNotImg
    \/ EditFormat /\ UNCHANGED varsNotImg
    \/ processImages /\ UNCHANGED varsNotImg
    \/ ProcessImagesStep /\ UNCHANGED varsNotImg
    \/ ProcessImagesReturn /\ UNCHANGED varsNotImg

\* one Convert/Resize run and what may be clicked again during it
NextResize ==
    \/ processImages /\ UNCHANGED varsNotImg
    \/ ProcessImagesStep /\ UNCHANGED varsNotImg
    \/ ProcessImagesReturn /\ UNCHANGED varsNotImg

----------------------------------------------------------------------------
(* PDFMergerSplitterTab *)

PageSpinMin == 1
PageSpinMax == 1000

\* the values the page spin boxes are explored over
PageChoices == PageSpinMin..(MaxPdfPages + 1)

PdfPaths == {"a.pdf", "b.pdf", "c.pdf", "x.pdf"}

\* a page PyPDF2 cannot extract: getPage and append throw on it
BadPage == <<"damaged", 0>>

\* the content of a file PdfFileReader rejects
NotPdf == << <<"", 0>> >>

\* the files the model's dialogs offer, as page sequences: two sound PDFs,
\* one whose first page is damaged, and one file that is no PDF
PdfDisk ==
    [p \in PdfPaths |->
        CASE p = "a.pdf" -> [k \in 1..MaxPdfPages |-> <<"a", k>>]
          [] p = "b.pdf" -> << <<"b", 1>> >>
          [] p = "c.pdf" -> [k \in 1..MaxPdfPages |->
                               IF k = 1 THEN BadPage ELSE <<"c", k>>]
          [] p = "x.pdf" -> NotPdf]

Readable(path) == PdfDisk[path] # NotPdf

\* mutant: an append that throws is taken for one that succeeded
Sound_Unchecked(path) == TRUE

\* merger.append(file_path) succeeds
Sound(path) ==
    Readable(path) /\ \A k \in 1..Len(PdfDisk[path]) : PdfDisk[path][k] # BadPage

\* what QFileDialog.getOpenFileNames can return: distinct files, or nothing
PdfSelections == {q \in SeqsOver(PdfPaths, MaxPdfs) : Distinct(q)}

\* what the two save dialogs can return: "" when cancelled, a file that can
\* be written, or a path that cannot be opened for writing.  None of them
\* is an input file.
SaveChoices == {"", "out/new.pdf", "nodir/new.pdf"}

Writable(output_file) == output_file = "out/new.pdf"

\* what the split output folder field can hold
SplitFolders == {"", "out", "nodir"}

\* mutant: the pages of a file go in front of what was merged so far
MergerAppend_InFront(merger, file_path) == PdfDisk[file_path] \o merger

\* merger.append(file_path), line 386
MergerAppend(merger, file_path) == merger \o PdfDisk[file_path]

\* mutant: page files numbered from 0
PageFileName_FromZero(i) == <<"page_", i, ".pdf">>

\* f"page_{i+1}.pdf", line 431
PageFileName(i) == <<"page_", i + 1, ".pdf">>

\* mutant: the start page is not shifted to a 0-based index
RangeStart_Unshifted(startPage) == startPage

\* start = self.startPageSpin.value() - 1, line 438
RangeStart(startPage) == startPage - 1

\* mutant: the output folder is never found empty
NoFolder_Unchecked(output_folder) == FALSE

\* `if not output_folder`, line 418
NoFolder(output_folder) == output_folder = ""

NoPdfsError == <<"Error: No PDF files added for merging.", "">>
NoPdfSelectedError == <<"Error: No PDF file selected for splitting.", "">>
NoSplitFolderError ==
    <<"Error: Please select an output folder for split PDFs.", "">>

\* the tab with or without PDFs added, a PDF selected and an output folder
\* chosen, the batch buttons not clicked yet
InitPdfInputs ==
    /\ pdfList \in {<<>>, <<"b.pdf">>, <<"a.pdf", "c.pdf">>}
    /\ selectedPDFFile \in {"", "a.pdf"}
    /\ splitAllCheckbox \in BOOLEAN
    /\ startPageSpin = 1
    /\ endPageSpin = IF selectedPDFFile = ""
                     THEN [value |-> 1, max |-> PageSpinMax]
                     ELSE [value |-> Len(PdfDisk[selectedPDFFile]),
                           max |-> Len(PdfDisk[selectedPDFFile])]
    /\ splitOutputEdit \in {"", "out"}
    /\ mergeBar = NewBar
    /\ splitBar = NewBar
    /\ pdfLog = <<>>
    /\ pdfDone = NoCall

\* the tab about to be asked for a split: any file selected by Select PDF,
\* either split mode, any start page, any end page the spin box allows, an
\* output folder typed or chosen
InitSplitInputs ==
    /\ pdfList = <<>>
    /\ selectedPDFFile \in PdfPaths
    /\ splitAllCheckbox \in BOOLEAN
    /\ startPageSpin \in PageChoices
    /\ \E mx \in {IF Readable(selectedPDFFile)
                   THEN Len(PdfDisk[selectedPDFFile]) ELSE PageSpinMax} :
          \E v \in PageChoices :
             v <= mx /\ endPageSpin = [value |-> v, max |-> mx]
    /\ splitOutputEdit \in {"out", "nodir"}
    /\ mergeBar = NewBar
    /\ splitBar = NewBar
    /\ pdfLog = <<>>
    /\ pdfDone = NoCall

\* the tab as constructed
InitPdf ==
    /\ pdfList = <<>>
    /\ selectedPDFFile = ""
    /\ splitAllCheckbox = TRUE
    /\ startPageSpin = 1
    /\ endPageSpin = [value |-> 1, max |-> PageSpinMax]
    /\ splitOutputEdit = ""
    /\ mergeBar = NewBar
    /\ splitBar = NewBar
    /\ pdfLog = <<>>
    /\ pdfDone = NoCall

addPDFFiles ==
    /\ CanHandle
    /\ \E files \in PdfSelections :
          /\ Len(pdfList) + Len(files) <= MaxPdfs
          /\ pdfList' = pdfList \o files
    /\ pdfLog' = <<>>
    /\ pdfDone' = NoCall
    /\ libCalls' = <<>>
    /\ UNCHANGED <<stack, selectedPDFFile, splitAllCheckbox, startPageSpin,
                   endPageSpin, splitOutputEdit, mergeBar, splitBar>>

\* mergePDFs up to its loop: the check, the save dialog, the bar, the merger
mergePDFs ==
    /\ CanHandle
    /\ Len(stack) < MaxNest
    /\ LET total == Len(pdfList)
       IN  IF total = 0
           THEN /\ pdfLog' = <<NoPdfsError>>
                /\ libCalls' = <<>>
                /\ UNCHANGED <<stack, mergeBar>>
           ELSE \E output_file \in SaveChoices :
                  IF output_file = ""
                  THEN /\ pdfLog' = <<>>
                       /\ libCalls' = <<>>
                       /\ UNCHANGED <<stack, mergeBar>>
                  ELSE /\ mergeBar' = SetValue(SetMaximum(mergeBar, total), 0)
                       /\ stack' = Append(stack,
                            [op |-> "mergePDFs", i |-> 0, total |-> total,
                             yielded |-> FALSE, output_file |-> output_file,
                             list0 |-> pdfList, merger |-> <<>>])
                       /\ pdfLog' = <<>>
                       /\ libCalls' = <<"PdfFileMerger">>
    /\ pdfDone' = NoCall
    /\ UNCHANGED <<pdfList, selectedPDFFile, splitAllCheckbox, startPageSpin,
                   endPageSpin, splitOutputEdit, splitBar>>

\* what a mergePDFs call did, when it ends: the list it was clicked on, the
\* pages it wrote (none unless ok), the bar as it leaves it
MergeSummary(f, ok) ==
    [op |-> "mergePDFs", ok |-> ok, total |-> f.total, list0 |-> f.list0,
     done |-> f.i, output_file |-> f.output_file,
     written |-> IF ok THEN f.merger ELSE <<>>, bar |-> mergeBar]

\* one turn of the loop, lines 385-388, inside the try: the append may throw,
\* which ends the handler with an error line
MergePDFsStep ==
    /\ ~Idle
    /\ Top.op = "mergePDFs"
    /\ Top.i < Top.total
    /\ LET f == Top
           i == f.i
       IN  IF i + 1 > Len(pdfList)
           THEN /\ stack' = Pop
                /\ pdfDone' = MergeSummary(f, FALSE)
                /\ pdfLog' = << <<"Error merging PDFs: ", "">> >>
                /\ libCalls' = <<>>
                /\ UNCHANGED mergeBar
           ELSE LET file_path == pdfList[i + 1]
                IN  IF Sound(file_path)
                    THEN /\ mergeBar' = SetValue(mergeBar, i + 1)
                         /\ stack' = Append(Pop,
                              [f EXCEPT !.i = i + 1, !.yielded = TRUE,
                                 !.merger = MergerAppend(f.merger, file_path)])
                         /\ pdfLog' = <<>>
                         /\ pdfDone' = NoCall
                         /\ libCalls' = <<"append">>
                    ELSE /\ stack' = Pop
                         /\ pdfDone' = MergeSummary(f, FALSE)
                         /\ pdfLog' = << <<"Error merging PDFs: ", file_path>> >>
                         /\ libCalls' = <<"append">>
                         /\ UNCHANGED mergeBar
    /\ UNCHANGED <<pdfList, selectedPDFFile, splitAllCheckbox, startPageSpin,
                   endPageSpin, splitOutputEdit, splitBar>>

\* after the loop, lines 389-393: the merged pages are written, or the write
\* throws
MergePDFsFinish ==
    /\ ~Idle
    /\ Top.op = "mergePDFs"
    /\ Top.i = Top.total
    /\ stack' = Pop
    /\ pdfDone' = MergeSummary(Top, Writable(Top.output_file))
    /\ pdfLog' = IF Writable(Top.output_file)
                 THEN << <<"Merged PDFs saved to ", Top.output_file>> >>
                 ELSE << <<"Error merging PDFs: ", Top.output_file>> >>
    /\ libCalls' = IF Writable(Top.output_file) THEN <<"write", "close">>
                   ELSE <<"write">>
    /\ UNCHANGED <<pdfList, selectedPDFFile, splitAllCheckbox, startPageSpin,
                   endPageSpin, splitOutputEdit, mergeBar, splitBar>>

\* QSpinBox: a value outside the range is moved to the nearest end
ClampPage(v, mx) == IF v < PageSpinMin THEN PageSpinMin ELSE IF v > mx THEN mx ELSE v

\* Select PDF: the chosen file becomes the one to split; when it can be
\* read, its page count becomes the maximum and the value of the end page
selectPDFFile ==
    /\ CanHandle
    /\ \E file_path \in PdfPaths \cup {""} :
          IF file_path = ""
          THEN /\ pdfLog' = <<>>
               /\ libCalls' = <<>>
               /\ UNCHANGED <<selectedPDFFile, endPageSpin>>
          ELSE /\ selectedPDFFile' = file_path
               /\ libCalls' = <<"PdfFileReader">>
               /\ IF Readable(file_path)
                  THEN LET num_pages == Len(PdfDisk[file_path])
                           mx == IF num_pages < PageSpinMin THEN PageSpinMin
                                 ELSE num_pages
                       IN  /\ endPageSpin' =
                                [value |-> ClampPage(num_pages, mx), max |-> mx]
                           /\ pdfLog' =
                                << <<"Selected PDF for splitting: ", file_path>> >>
                  ELSE /\ pdfLog' =
                            << <<"Selected PDF for splitting: ", file_path>>,
                               <<"Error reading PDF: ", file_path>> >>
                       /\ UNCHANGED endPageSpin
    /\ pdfDone' = NoCall
    /\ UNCHANGED <<stack, pdfList, splitAllCheckbox, startPageSpin,
                   splitOutputEdit, mergeBar, splitBar>>

\* Browse: the chosen folder, unless the dialog was cancelled
selectSplitOutputFolder ==
    /\ CanHandle
    /\ \E folder \in {"", "out"} :
          splitOutputEdit' = IF folder # "" THEN folder ELSE splitOutputEdit
    /\ pdfLog' = <<>>
    /\ pdfDone' = NoCall
    /\ libCalls' = <<>>
    /\ UNCHANGED <<stack, pdfList, selectedPDFFile, splitAllCheckbox,
                   startPageSpin, endPageSpin, mergeBar, splitBar>>

\* the user types into the output folder field
EditSplitOutput ==
    /\ CanHandle
    /\ \E text \in SplitFolders : text # splitOutputEdit /\ splitOutputEdit' = text
    /\ pdfLog' = <<>>
    /\ pdfDone' = NoCall
    /\ libCalls' = <<>>
    /\ UNCHANGED <<stack, pdfList, selectedPDFFile, splitAllCheckbox,
                   startPageSpin, endPageSpin, mergeBar, splitBar>>

\* the user ticks or unticks Split All Pages
ToggleSplitAll ==
    /\ CanHandle
    /\ splitAllCheckbox' = ~splitAllCheckbox
    /\ pdfLog' = <<>>
    /\ pdfDone' = NoCall
    /\ libCalls' = <<>>
    /\ UNCHANGED <<stack, pdfList, selectedPDFFile, startPageSpin, endPageSpin,
                   splitOutputEdit, mergeBar, splitBar>>

\* the user sets the start or the end page
EditPages ==
    /\ CanHandle
    /\ \/ /\ \E v \in PageChoices : v # startPageSpin /\ startPageSpin' = v
          /\ UNCHANGED endPageSpin
       \/ /\ \E v \in PageChoices :
               /\ v # endPageSpin.value
               /\ v <= endPageSpin.max
               /\ endPageSpin' = [endPageSpin EXCEPT !.value = v]
          /\ UNCHANGED startPageSpin
    /\ pdfLog' = <<>>
    /\ pdfDone' = NoCall
    /\ libCalls' = <<>>
    /\ UNCHANGED <<stack, pdfList, selectedPDFFile, splitAllCheckbox,
                   splitOutputEdit, mergeBar, splitBar>>

\* what a splitPDF call did, when it ends.  all: Split All Pages was checked;
\* read: the reader was built; startPage, endPage: what the two spin boxes
\* held at the click of a range split (0 for Split All); confirmed: the save
\* dialog returned a file; written: the files written, each with its name
\* and its pages
SplitSummary(f, ok, confirmed, written) ==
    [op |-> "splitPDF", all |-> f.all, ok |-> ok, read |-> TRUE,
     file |-> f.file, output_folder |-> f.output_folder,
     startPage |-> f.startPage, endPage |-> f.endPage,
     confirmed |-> confirmed, written |-> written, bar |-> splitBar]

SplitError(detail) == <<"Error splitting PDF: ", detail>>

\* splitPDF up to its loops: the two checks, the reader, the bar
splitPDF ==
    /\ CanHandle
    /\ Len(stack) < MaxNest
    /\ IF selectedPDFFile = ""
       THEN /\ pdfLog' = <<NoPdfSelectedError>>
            /\ libCalls' = <<>>
            /\ pdfDone' = NoCall
            /\ UNCHANGED <<stack, splitBar>>
       ELSE IF NoFolder(splitOutputEdit)
       THEN /\ pdfLog' = <<NoSplitFolderError>>
            /\ libCalls' = <<>>
            /\ pdfDone' = NoCall
            /\ UNCHANGED <<stack, splitBar>>
       ELSE IF ~Readable(selectedPDFFile)
       THEN /\ pdfLog' = <<SplitError(selectedPDFFile)>>
            /\ libCalls' = <<"PdfFileReader">>
            /\ pdfDone' = [op |-> "splitPDF", all |-> splitAllCheckbox,
                           ok |-> FALSE, read |-> FALSE,
                           file |-> selectedPDFFile,
                           output_folder |-> splitOutputEdit,
                           startPage |-> IF splitAllCheckbox THEN 0
                                         ELSE startPageSpin,
                           endPage |-> IF splitAllCheckbox THEN 0
                                       ELSE endPageSpin.value,
                           confirmed |-> FALSE,
                           written |-> <<>>, bar |-> splitBar]
            /\ UNCHANGED <<stack, splitBar>>
       ELSE LET num_pages == Len(PdfDisk[selectedPDFFile])
                start == IF splitAllCheckbox THEN 0
                         ELSE RangeStart(startPageSpin)
                end == IF splitAllCheckbox THEN num_pages
                       ELSE endPageSpin.value
            IN  /\ splitBar' = SetValue(SetMaximum(splitBar, end - start), 0)
                /\ stack' = Append(stack,
                     [op |-> "splitPDF", all |-> splitAllCheckbox,
                      i |-> start, start |-> start, end |-> end,
                      yielded |-> FALSE, file |-> selectedPDFFile,
                      output_folder |-> splitOutputEdit,
                      startPage |-> IF splitAllCheckbox THEN 0
                                    ELSE startPageSpin,
                      endPage |-> IF splitAllCheckbox THEN 0
                                  ELSE endPageSpin.value,
                      writer |-> <<>>, written |-> <<>>])
                /\ pdfLog' = <<>>
                /\ libCalls' = <<"PdfFileReader">>
                /\ pdfDone' = NoCall
    /\ UNCHANGED <<pdfList, selectedPDFFile, splitAllCheckbox, startPageSpin,
                   endPageSpin, splitOutputEdit, mergeBar>>

\* one turn of either loop, inside the try.  Split All (lines 429-435): the
\* page is extracted and written as its own file; a range split (lines
\* 445-447): the page is added to the one writer.  A throw ends the handler
\* with an error line.
SplitPDFStep ==
    /\ ~Idle
    /\ Top.op = "splitPDF"
    /\ Top.i < Top.end
    /\ LET f == Top
           i == f.i
           pages == PdfDisk[f.file]
           extracted == i + 1 \in 1..Len(pages) /\ pages[i + 1] # BadPage
           opened == ~f.all \/ f.output_folder = "out"
       IN  IF extracted /\ opened
           THEN /\ stack' = Append(Pop,
                     IF f.all
                     THEN [f EXCEPT !.i = i + 1, !.yielded = TRUE,
                              !.written = Append(f.written,
                                  [name |-> PageFileName(i),
                                   pages |-> <<pages[i + 1]>>])]
                     ELSE [f EXCEPT !.i = i + 1, !.yielded = TRUE,
                              !.writer = Append(f.writer, pages[i + 1])])
                /\ splitBar' = SetValue(splitBar, i - f.start + 1)
                /\ pdfLog' = <<>>
                /\ pdfDone' = NoCall
                /\ libCalls' = IF f.all THEN <<"getPage", "addPage", "write">>
                               ELSE <<"getPage", "addPage">>
           ELSE /\ stack' = Pop
                /\ pdfDone' = SplitSummary(f, FALSE, FALSE, f.written)
                /\ pdfLog' = <<SplitError(f.file)>>
                /\ libCalls' = IF extracted THEN <<"getPage", "addPage">>
                               ELSE <<"getPage">>
                /\ UNCHANGED splitBar
    /\ UNCHANGED <<pdfList, selectedPDFFile, splitAllCheckbox, startPageSpin,
                   endPageSpin, splitOutputEdit, mergeBar>>

\* after the loop.  Split All: the closing log line (436).  A range split:
\* the save dialog, and the write unless it was cancelled (448-452); the
\* open may throw.
SplitPDFFinish ==
    /\ ~Idle
    /\ Top.op = "splitPDF"
    /\ Top.i >= Top.end
    /\ stack' = Pop
    /\ LET f == Top
       IN  IF f.all
           THEN /\ pdfDone' = SplitSummary(f, TRUE, FALSE, f.written)
                /\ pdfLog' = << <<"Split all pages into individual PDFs.",
                                 f.file>> >>
                /\ libCalls' = <<>>
           ELSE \E output_file \in SaveChoices :
                  IF output_file = ""
                  THEN /\ pdfDone' = SplitSummary(f, TRUE, FALSE, <<>>)
                       /\ pdfLog' = <<>>
                       /\ libCalls' = <<>>
                  ELSE IF Writable(output_file)
                  THEN /\ pdfDone' = SplitSummary(f, TRUE, TRUE,
                              << [name |-> output_file, pages |-> f.writer] >>)
                       /\ pdfLog' = << <<"Split PDF pages saved to ",
                                        output_file>> >>
                       /\ libCalls' = <<"write">>
                  ELSE /\ pdfDone' = SplitSummary(f, FALSE, TRUE, <<>>)
                       /\ pdfLog' = <<SplitError(output_file)>>
                       /\ libCalls' = <<>>
    /\ UNCHANGED <<pdfList, selectedPDFFile, splitAllCheckbox, startPageSpin,
                   endPageSpin, splitOutputEdit, mergeBar, splitBar>>

NextMerge ==
    \/ addPDFFiles /\ UNCHANGED varsNotPdf
    \/ mergePDFs /\ UNCHANGED varsNotPdf
    \/ MergePDFsStep /\ UNCHANGED varsNotPdf
    \/ MergePDFsFinish /\ UNCHANGED varsNotPdf

\* the three batch handlers and their loops
NextBatch ==
    \/ processImages /\ UNCHANGED varsNotImg
    \/ ProcessImagesStep /\ UNCHANGED varsNotImg
    \/ ProcessImagesReturn /\ UNCHANGED varsNotImg
    \/ mergePDFs /\ UNCHANGED varsNotPdf
    \/ MergePDFsStep /\ UNCHANGED varsNotPdf
    \/ MergePDFsFinish /\ UNCHANGED varsNotPdf
    \/ splitPDF /\ UNCHANGED varsNotPdf
    \/ SplitPDFStep /\ UNCHANGED varsNotPdf
    \/ SplitPDFFinish /\ UNCHANGED varsNotPdf

\* Split PDF, and Select PDF clicked while it runs (another file, another
\* end page)
NextSplitRun ==
    \/ selectPDFFile /\ UNCHANGED varsNotPdf
    \/ splitPDF /\ UNCHANGED varsNotPdf
    \/ SplitPDFStep /\ UNCHANGED varsNotPdf
    \/ SplitPDFFinish /\ UNCHANGED varsNotPdf

NextSplit ==
    \/ selectPDFFile /\ UNCHANGED varsNotPdf
    \/ selectSplitOutputFolder /\ UNCHANGED varsNotPdf
    \/ EditSplitOutput /\ UNCHANGED varsNotPdf
    \/ ToggleSplitAll /\ UNCHANGED varsNotPdf
    \/ EditPages /\ UNCHANGED varsNotPdf
    \/ splitPDF /\ UNCHANGED varsNotPdf
    \/ SplitPDFStep /\ UNCHANGED varsNotPdf
    \/ SplitPDFFinish /\ UNCHANGED varsNotPdf

----------------------------------------------------------------------------
(* ToDoListTab *)

\* What the single-line task input can hold when Add Task is clicked: typed
\* or pasted text.  A pasted line break stays in QLineEdit.text().
TaskInputs ==
    { <<>>, <<" ">>, <<" ", "a", " ">>, <<"b">>, <<"a", "\n", "b">> }

\* What tasks.txt can hold before the program first writes it.
InitialFiles ==
    { Absent, <<>>, <<"a", "\n">>, <<" ", "a", " ", "\n", "\n", "b">> }

\* the tab as constructed, beside a tasks.txt holding `file`
TodoStart(file) ==
    /\ taskList = <<>>
    /\ taskSel = 0
    /\ taskFile = file
    /\ todoLog = <<>>
    /\ savedTasks = NotSaved

InitTodo == \E file \in InitialFiles : TodoStart(file)

\* The user clicks a row of the list (single selection).
SelectTask ==
    /\ \E r \in 1..Len(taskList) : r # taskSel /\ taskSel' = r
    /\ UNCHANGED <<taskList, taskFile, todoLog, savedTasks>>

addTask ==
    \E input \in TaskInputs :
        LET task == Strip(input) IN
        /\ Len(taskList) < MaxTasks
        /\ IF task # <<>>
           THEN /\ taskList' = Append(taskList, [text |-> task, struck |-> FALSE])
                /\ todoLog' = << <<"Added task: ", task>> >>
           ELSE /\ UNCHANGED taskList
                /\ todoLog' = <<>>
        /\ UNCHANGED <<taskSel, taskFile, savedTasks>>

\* takeItem(row): the row leaves the list; the view moves the selection to
\* the row that follows, or to the one before when the last row went.
RemoveAt(list, r) == SubSeq(list, 1, r - 1) \o SubSeq(list, r + 1, Len(list))

removeTask ==
    IF taskSel = 0
    THEN /\ todoLog' = << <<"Error: No task selected.", <<>> >> >>
         /\ UNCHANGED <<taskList, taskSel, taskFile, savedTasks>>
    ELSE /\ taskList' = RemoveAt(taskList, taskSel)
         /\ taskSel' = IF taskSel <= Len(taskList) - 1 THEN taskSel
                       ELSE Len(taskList) - 1
         /\ todoLog' = << <<"Removed task: ", taskList[taskSel].text>> >>
         /\ UNCHANGED <<taskFile, savedTasks>>

markComplete ==
    IF taskSel = 0
    THEN /\ todoLog' = << <<"Error: No task selected.", <<>> >> >>
         /\ UNCHANGED <<taskList, taskSel, taskFile, savedTasks>>
    ELSE /\ taskList' = [taskList EXCEPT ![taskSel].struck = TRUE]
         /\ todoLog' = << <<"Marked as complete: ", taskList[taskSel].text>> >>
         /\ UNCHANGED <<taskSel, taskFile, savedTasks>>

\* saveTasks: open(task_file, "w") truncates, then one write per entry.
\* Outcomes: the open throws (file untouched); a write throws after n whole
\* entries reached the file; or every entry is written.
saveTasks ==
    \/ /\ todoLog' = << <<"Error saving tasks: ", <<>> >> >>
       /\ UNCHANGED <<taskList, taskSel, taskFile, savedTasks>>
    \/ \E n \in 0..(Len(taskList) - 1) :
          /\ taskFile' = WriteLines(Texts(taskList), n)
          /\ savedTasks' = NotSaved
          /\ todoLog' = << <<"Error saving tasks: ", <<>> >> >>
          /\ UNCHANGED <<taskList, taskSel>>
    \/ /\ taskFile' = WriteLines(Texts(taskList), Len(taskList))
       /\ savedTasks' = Texts(taskList)
       /\ todoLog' = << <<"Tasks saved successfully.", <<>> >> >>
       /\ UNCHANGED <<taskList, taskSel>>

\* loadTasks: the list is cleared inside the try, before the file is opened.
loadTasks ==
    IF taskFile = Absent
    THEN /\ todoLog' = << <<"Error: No saved tasks found.", <<>> >> >>
         /\ UNCHANGED <<taskList, taskSel, taskFile, savedTasks>>
    ELSE \/ /\ taskList' = <<>>
            /\ taskSel' = 0
            /\ todoLog' = << <<"Error loading tasks: ", <<>> >> >>
            /\ UNCHANGED <<taskFile, savedTasks>>
         \/ /\ taskList' = LoadedItems(taskFile)
            /\ taskSel' = 0
            /\ todoLog' = << <<"Tasks loaded successfully.", <<>> >> >>
            /\ UNCHANGED <<taskFile, savedTasks>>

NextTodo ==
    \/ SelectTask /\ UNCHANGED <<varsUi, varsImg, varsPdf, varsPwd, varsOcr>>
    \/ addTask /\ UNCHANGED <<varsUi, varsImg, varsPdf, varsPwd, varsOcr>>
    \/ removeTask /\ UNCHANGED <<varsUi, varsImg, varsPdf, varsPwd, varsOcr>>
    \/ markComplete /\ UNCHANGED <<varsUi, varsImg, varsPdf, varsPwd, varsOcr>>
    \/ saveTasks /\ UNCHANGED <<varsUi, varsImg, varsPdf, varsPwd, varsOcr>>
    \/ loadTasks /\ UNCHANGED <<varsUi, varsImg, varsPdf, varsPwd, varsOcr>>

----------------------------------------------------------------------------
(* PasswordGeneratorTab *)

LengthMin == 4
LengthMax == 64
LengthDefault == 12

\* the values the length spin box is explored over
LengthRange == { n \in LengthMin..LengthMax : n <= PwdLenCap }

Classes == {"uppercase", "lowercase", "numbers", "symbols"}

\* string.ascii_uppercase, ascii_lowercase, digits and punctuation, each
\* abridged to its first character
ascii_uppercase == <<"A">>
ascii_lowercase == <<"a">>
digits == <<"0">>
punctuation == <<"!">>

NoCharSetError ==
    << "E","r","r","o","r",":"," ","S","e","l","e","c","t"," ","a","t"," ",
       "l","e","a","s","t"," ","o","n","e"," ","c","h","a","r","a","c","t",
       "e","r"," ","s","e","t","." >>

\* mutant: the symbols are added whether or not their box is checked
CharPool_SymbolsAlways(chk) ==
    (IF chk["uppercase"] THEN ascii_uppercase ELSE <<>>)
    \o (IF chk["lowercase"] THEN ascii_lowercase ELSE <<>>)
    \o (IF chk["numbers"] THEN digits ELSE <<>>)
    \o punctuation

\* char_pool as generatePassword builds it, class by class
CharPool(chk) ==
    (IF chk["uppercase"] THEN ascii_uppercase ELSE <<>>)
    \o (IF chk["lowercase"] THEN ascii_lowercase ELSE <<>>)
    \o (IF chk["numbers"] THEN digits ELSE <<>>)
    \o (IF chk["symbols"] THEN punctuation ELSE <<>>)

\* the tab as constructed
PwdStart ==
    /\ lengthSpin = LengthDefault
    /\ checks = [c \in Classes |-> TRUE]
    /\ passwordResult = <<>>

\* the settings as the user may have left them before clicking Generate:
\* any length of the spin box's range, any combination of the four boxes
InitPwd ==
    /\ lengthSpin \in LengthRange
    /\ checks \in [Classes -> BOOLEAN]
    /\ passwordResult = <<>>

\* "".join(random.choice(char_pool) for _ in range(length)): every position
\* is any character of the pool
GeneratedPasswords(length, pool) ==
    { [k \in 1..length |-> pool[pick[k]]] : pick \in [1..length -> 1..Len(pool)] }

generatePassword ==
    LET char_pool == CharPool(checks) IN
    /\ IF char_pool = <<>>
       THEN passwordResult' = NoCharSetError
       ELSE passwordResult' \in GeneratedPasswords(lengthSpin, char_pool)
    /\ UNCHANGED <<lengthSpin, checks>>

NextPwd ==
    generatePassword /\ UNCHANGED <<varsUi, varsImg, varsPdf, varsTodo, varsOcr>>

----------------------------------------------------------------------------
(* ScreenshotOCRTab *)

NoPath == "<None>"

\* the tab as constructed, beside a screenshot.png in state `file`
OcrStart(file) ==
    /\ screenshot_path = NoPath
    /\ shotFile = file
    /\ ocrProgress = 0
    /\ imagePreview = FALSE
    /\ ocrResult = <<>>
    /\ ocrInput = "none"

\* the working directory may hold the screenshot.png of an earlier session
InitOcr == \E file \in {"absent", "stale"} : OcrStart(file)

\* takeScreenshot assigns the path first.  Then pyautogui.screenshot() throws;
\* or image.save throws, having left the file as it was, removed it or cut it
\* short; or the capture is saved and previewed.
takeScreenshot ==
    /\ Len(ocrResult) < MaxOcrLines
    /\ screenshot_path' = "screenshot.png"
    /\ \/ /\ ocrResult' = Append(ocrResult, "Error taking screenshot: ")
          /\ UNCHANGED <<shotFile, ocrProgress, imagePreview>>
       \/ /\ shotFile' \in {shotFile, "absent", "partial"}
          /\ ocrResult' = Append(ocrResult, "Error taking screenshot: ")
          /\ UNCHANGED <<ocrProgress, imagePreview>>
       \/ /\ shotFile' = "captured"
          /\ imagePreview' = TRUE
          /\ ocrResult' = Append(ocrResult, "Screenshot taken and saved.")
          /\ ocrProgress' = 50
    /\ UNCHANGED ocrInput

NoScreenshotError ==
    "Error: No screenshot available. Please take a screenshot first."

\* performOCR: without a path, or without the file, the error line and no
\* OCR; else easyocr reads the file, and throws or returns the text.
performOCR ==
    /\ Len(ocrResult) < MaxOcrLines
    /\ IF screenshot_path = NoPath \/ shotFile = "absent"
       THEN /\ ocrResult' = Append(ocrResult, NoScreenshotError)
            /\ ocrInput' = "none"
            /\ UNCHANGED <<screenshot_path, shotFile, ocrProgress>>
       ELSE /\ ocrInput' = shotFile
            /\ \/ /\ ocrResult' = Append(ocrResult, "OCR Result:")
                  /\ ocrProgress' = 100
               \/ /\ ocrResult' = Append(ocrResult, "Error performing OCR: ")
                  /\ ocrProgress' = 0
            /\ UNCHANGED <<screenshot_path, shotFile>>
    /\ UNCHANGED imagePreview

NextOcr ==
    \/ takeScreenshot /\ UNCHANGED <<varsUi, varsImg, varsPdf, varsTodo, varsPwd>>
    \/ performOCR /\ UNCHANGED <<varsUi, varsImg, varsPdf, varsTodo, varsPwd>>

----------------------------------------------------------------------------
(* Specifications: one per tab, the other tabs left as constructed *)

InitSpecTodo ==
    UiStart /\ InitImg /\ InitPdf /\ InitTodo /\ PwdStart /\ OcrStart("absent")

SpecTodo == InitSpecTodo /\ [][NextTodo]_vars

InitSpecPwd ==
    UiStart /\ InitImg /\ InitPdf /\ TodoStart(Absent) /\ InitPwd /\ OcrStart("absent")

SpecPwd == InitSpecPwd /\ [][NextPwd]_vars

InitSpecOcr ==
    UiStart /\ InitImg /\ InitPdf /\ TodoStart(Absent) /\ PwdStart /\ InitOcr

SpecOcr == InitSpecOcr /\ [][NextOcr]_vars

InitSpecImg ==
    UiStart /\ InitImg /\ InitPdf /\ TodoStart(Absent) /\ PwdStart /\ OcrStart("absent")

SpecImg == InitSpecImg /\ [][NextImg]_vars

InitSpecResize ==
    UiStart /\ InitResize /\ InitPdf /\ TodoStart(Absent) /\ PwdStart /\ OcrStart("absent")

SpecResize == InitSpecResize /\ [][NextResize]_vars

InitSpecMerge ==
    UiStart /\ InitImg /\ InitPdf /\ TodoStart(Absent) /\ PwdStart
    /\ OcrStart("absent")

SpecMerge == InitSpecMerge /\ [][NextMerge]_vars

InitSpecSplit ==
    UiStart /\ InitImg /\ InitPdf /\ TodoStart(Absent) /\ PwdStart
    /\ OcrStart("absent")

SpecSplit == InitSpecSplit /\ [][NextSplit]_vars

InitSpecSplitRun ==
    UiStart /\ InitImg /\ InitSplitInputs /\ TodoStart(Absent) /\ PwdStart
    /\ OcrStart("absent")

SpecSplitRun == InitSpecSplitRun /\ [][NextSplitRun]_vars

InitSpecBatch ==
    UiStart /\ InitImgInputs /\ InitPdfInputs /\ TodoStart(Absent) /\ PwdStart
    /\ OcrStart("absent")

SpecBatch == InitSpecBatch /\ [][NextBatch]_vars

----------------------------------------------------------------------------
(* Claims *)

LoadedOk == todoLog = << <<"Tasks loaded successfully.", <<>> >> >>

\* C1 (as claimed): after a successful loadTasks of a file that a successful
\* saveTasks wrote, the task list holds exactly the strings that were saved,
\* in the same order.
C1_RoundTrip ==
    (LoadedOk /\ savedTasks # NotSaved) => Texts(taskList) = savedTasks

\* the characters of the checked classes
CheckedUnion ==
    {ascii_uppercase[k] : k \in {j \in 1..Len(ascii_uppercase) : checks["uppercase"]}}
    \cup {ascii_lowercase[k] : k \in {j \in 1..Len(ascii_lowercase) : checks["lowercase"]}}
    \cup {digits[k] : k \in {j \in 1..Len(digits) : checks["numbers"]}}
    \cup {punctuation[k] : k \in {j \in 1..Len(punctuation) : checks["symbols"]}}

PasswordFits ==
    /\ Len(passwordResult) = lengthSpin
    /\ \A k \in 1..Len(passwordResult) : passwordResult[k] \in CheckedUnion

\* The result field starts empty and generatePassword never leaves it empty
\* (the shortest length is 4): a non-empty field is what the latest call left.
\* The settings are those the call was made with.
Generated == passwordResult # <<>>

\* C2 (as claimed): for every length and every combination of the four
\* checkboxes, what generatePassword leaves in the result field has the
\* requested length and only characters of the checked classes.
C2_AnyCombination == Generated => PasswordFits

\* C2 (amended): the same for every combination with at least one box
\* checked; with none checked the field holds the error text instead.
C2_SomeClassChecked ==
    Generated =>
        IF \E c \in Classes : checks[c] THEN PasswordFits
        ELSE passwordResult = NoCharSetError

\* a five-character password of lowercase letters and symbols only, shown
\* while exactly those two boxes are checked
C2_Witness ==
    /\ lengthSpin = 5
    /\ checks = [c \in Classes |-> c \in {"lowercase", "symbols"}]
    /\ passwordResult = <<"a", "!", "!", "a", "!">>

RECURSIVE PagesOf(_)
\* the pages of the files of a list, file after file
PagesOf(list) ==
    IF list = <<>> THEN <<>>
    ELSE PdfDisk[Head(list)] \o PagesOf(Tail(list))

MergedOk == pdfDone.op = "mergePDFs" /\ pdfDone.ok

\* C3: when mergePDFs completes without error, the pages it wrote are the
\* pages of the PDFs of the list it was clicked on, in list order, so their
\* number is the sum of the inputs' page counts.
C3_MergeIsConcatenation ==
    MergedOk =>
        /\ Len(pdfDone.list0) = pdfDone.total
        /\ pdfDone.written = PagesOf(pdfDone.list0)

\* b.pdf and a.pdf merged in that order
C3_Witness ==
    /\ MergedOk
    /\ pdfDone.list0 = <<"b.pdf", "a.pdf">>
    /\ Len(pdfDone.written) = 1 + MaxPdfPages
    /\ pdfDone.written[1] = <<"b", 1>>

SplitAllEnded == pdfDone.op = "splitPDF" /\ pdfDone.all

\* C4: with Split All Pages checked, a splitPDF that completes without error
\* on an M-page PDF has written exactly M files, page_1.pdf to page_M.pdf
\* in that order, and page_k.pdf holds the one page k of the input.
C4_SplitAllWritesEveryPage ==
    (SplitAllEnded /\ pdfDone.ok) =>
        LET pages == PdfDisk[pdfDone.file]
        IN  pdfDone.written =
                [k \in 1..Len(pages) |->
                    [name |-> <<"page_", k, ".pdf">>, pages |-> <<pages[k]>>]]

\* a.pdf split into one file per page
C4_Witness ==
    /\ SplitAllEnded
    /\ pdfDone.ok
    /\ pdfDone.file = "a.pdf"
    /\ Len(pdfDone.written) = MaxPdfPages
    /\ pdfDone.written[MaxPdfPages].pages = << <<"a", MaxPdfPages>> >>

\* a range split with 1 <= s <= e <= M whose save dialog was confirmed
RangeConfirmed ==
    /\ pdfDone.op = "splitPDF"
    /\ ~pdfDone.all
    /\ pdfDone.confirmed
    /\ 1 <= pdfDone.startPage
    /\ pdfDone.startPage <= pdfDone.endPage
    /\ pdfDone.endPage <= Len(PdfDisk[pdfDone.file])

\* one file, holding pages s..e of the input in order
RangeWritten ==
    /\ Len(pdfDone.written) = 1
    /\ pdfDone.written[1].pages =
          SubSeq(PdfDisk[pdfDone.file], pdfDone.startPage, pdfDone.endPage)
    /\ Len(pdfDone.written[1].pages) =
          pdfDone.endPage - pdfDone.startPage + 1

\* C5 (as claimed): with Split All Pages unchecked, 1 <= s <= e <= M and the
\* save dialog confirmed, splitPDF writes one file with exactly the pages
\* s..e of the input, in order.
C5_RangeAlwaysWritten == RangeConfirmed => RangeWritten

\* C5 (amended): the same for a splitPDF that completes without error.
C5_RangeWrittenUnlessError == (RangeConfirmed /\ pdfDone.ok) => RangeWritten

\* page 2 alone taken out of a.pdf
C5_Witness ==
    /\ RangeConfirmed
    /\ pdfDone.ok
    /\ pdfDone.file = "a.pdf"
    /\ pdfDone.startPage = 2
    /\ pdfDone.endPage = 2
    /\ pdfDone.written[1].pages = << <<"a", 2>> >>

\* C6: with Maintain Aspect Ratio checked, whatever the size of the original
\* and the requested width W and height H, every image processImages saved
\* is at most W wide and at most H high.
C6_WithinBox ==
    (imgDone.op = "processImages" /\ imgDone.maintain_aspect) =>
        \A k \in 1..Len(imgDone.att) :
            imgDone.att[k].ok =>
                /\ imgDone.att[k].size[1] <= imgDone.target_width
                /\ imgDone.att[k].size[2] <= imgDone.target_height

\* a 4 by 3 image asked into a 2 by 3 box is saved 2 by 2
C6_Witness ==
    /\ imgDone.op = "processImages"
    /\ imgDone.maintain_aspect
    /\ imgDisk["in/a.png"] = <<4, 3>>
    /\ imgDone.target_width = 2
    /\ imgDone.target_height = 3
    /\ Len(imgDone.att) = 1
    /\ imgDone.att[1].ok
    /\ imgDone.att[1].size = <<2, 2>>

\* C7 (as claimed): whichever entries fail, a processImages call attempts
\* every entry of the list it was clicked on exactly once, in list order,
\* and ends with the progress bar at the number of entries.
C7_BatchGoesThrough ==
    imgDone.op = "processImages" =>
        /\ ~imgDone.crashed
        /\ [k \in 1..Len(imgDone.att) |-> imgDone.att[k].file] = imgDone.list0
        /\ imgDone.bar = Len(imgDone.list0)

\* C8 (as claimed): with Split All Pages checked and the PDF read, a page
\* that cannot be extracted does not stop the batch: every sound page of the
\* input has its page_k.pdf written into the output folder.
C8_SplitAllGoesOn ==
    (SplitAllEnded /\ pdfDone.read /\ pdfDone.output_folder = "out") =>
        LET pages == PdfDisk[pdfDone.file]
        IN  \A k \in 1..Len(pages) :
                pages[k] # BadPage =>
                    \E j \in 1..Len(pdfDone.written) :
                        pdfDone.written[j].name = <<"page_", k, ".pdf">>

\* the step made no library call and started no batch
NoWork == libCalls' = <<>> /\ stack' = stack

\* C9: processImages with an empty image list or an empty output folder,
\* mergePDFs with an empty PDF list, and splitPDF with no selected PDF or an
\* empty output folder each append their error line to the log, make no
\* library call, start no loop (so write no file) and leave their progress
\* bar unchanged.
C9_EmptyInputNoWork ==
    [][/\ (processImages /\ imageList = <<>>) =>
            /\ imgLog' = << <<"Error: No images selected.", "">> >>
            /\ NoWork /\ imgBar' = imgBar
       /\ (processImages /\ imageList # <<>> /\ outputPathEdit = "") =>
            /\ imgLog' = << <<"Error: Please select an output folder.", "">> >>
            /\ NoWork /\ imgBar' = imgBar
       /\ (mergePDFs /\ pdfList = <<>>) =>
            /\ pdfLog' = <<NoPdfsError>>
            /\ NoWork /\ mergeBar' = mergeBar
       /\ (splitPDF /\ selectedPDFFile = "") =>
            /\ pdfLog' = <<NoPdfSelectedError>>
            /\ NoWork /\ splitBar' = splitBar
       /\ (splitPDF /\ selectedPDFFile # "" /\ splitOutputEdit = "") =>
            /\ pdfLog' = <<NoSplitFolderError>>
            /\ NoWork /\ splitBar' = splitBar
      ]_vars

\* Split PDF was just clicked with a PDF selected and no output folder: the
\* error line is the step's only trace
C9_Witness ==
    /\ selectedPDFFile # ""
    /\ splitOutputEdit = ""
    /\ pdfLog = <<NoSplitFolderError>>
    /\ libCalls = <<>>
    /\ stack = <<>>

\* C11 (as claimed): while a processImages call is in progress no other
\* handler runs: it is the only handler on the stack, the list and the
\* settings it reads are as they were at the click, and the index it reads
\* next names an existing list entry.
C11_NoInterleaving ==
    /\ Len(stack) <= 1
    /\ \A k \in 1..Len(stack) :
          stack[k].op = "processImages" =>
              /\ imageList = stack[k].list0
              /\ Lower(formatCombo) = stack[k].target_format
              /\ outputPathEdit = stack[k].output_folder
              /\ stack[k].i < stack[k].total => stack[k].i + 1 <= Len(imageList)

\* merger.append throws on this file: it is no PDF, or a page is damaged
AppendThrows(path) ==
    \/ PdfDisk[path] = NotPdf
    \/ \E k \in 1..Len(PdfDisk[path]) : PdfDisk[path][k] = BadPage

\* a mergePDFs call has just ended inside its loop
MergeCutShort == pdfDone.op = "mergePDFs" /\ pdfDone.done < pdfDone.total

\* C12: when appending an input throws, mergePDFs is aborted: no merge ever
\* gets past an input that throws, and the call ends there with no output
\* written, exactly one 'Error merging PDFs' line appended and the merge
\* bar at the number of inputs appended before the failure.
C12_MergeAborted ==
    /\ \A k \in 1..Len(stack) :
          stack[k].op = "mergePDFs" =>
              \A j \in 1..stack[k].i : ~AppendThrows(stack[k].list0[j])
    /\ MergeCutShort =>
          /\ ~pdfDone.ok
          /\ AppendThrows(pdfDone.list0[pdfDone.done + 1])
          /\ pdfDone.written = <<>>
          /\ Len(pdfLog) = 1
          /\ pdfLog[1][1] = "Error merging PDFs: "
          /\ mergeBar.value = pdfDone.done

\* a.pdf was appended, c.pdf threw
C12_Witness ==
    /\ MergeCutShort
    /\ pdfDone.list0 = <<"a.pdf", "c.pdf">>
    /\ pdfDone.done = 1
    /\ mergeBar.value = 1
    /\ pdfLog = << <<"Error merging PDFs: ", "c.pdf">> >>

\* C13 (as claimed): a loadTasks call that appends an error line (the file
\* is missing, or opening or reading it throws) leaves the task list as it
\* was before the call.
C13_ErrorKeepsList ==
    [][(loadTasks /\ todoLog'[1][1] # "Tasks loaded successfully.")
          => taskList' = taskList]_vars

\* C14 (as claimed): in one processImages batch no output written for a list
\* entry is overwritten by the output of a later entry: the images processed
\* successfully have pairwise different output files, so there are as many
\* output files as processed images.
C14_OwnOutputFile ==
    imgDone.op = "processImages" =>
        LET done == {k \in 1..Len(imgDone.att) : imgDone.att[k].ok}
        IN  /\ \A j, k \in done :
                  j # k => imgDone.att[j].out # imgDone.att[k].out
            /\ Cardinality({imgDone.att[k].out : k \in done})
                  = Cardinality(done)

\* a batch handler of this kind is in progress
InProgress(op) == \E k \in 1..Len(stack) : stack[k].op = op

\* the bar is within 0..maximum and shows `handled`
BarShows(bar, handled) ==
    /\ 0 <= bar.value
    /\ bar.value <= bar.max
    /\ bar.value = handled

\* every batch in progress has its bar at the number of items it has handled,
\* and a batch that has just ended without error has left its bar at the
\* maximum
BarTracks ==
    /\ \A k \in 1..Len(stack) :
          CASE stack[k].op = "processImages" -> BarShows(imgBar, stack[k].i)
            [] stack[k].op = "mergePDFs" -> BarShows(mergeBar, stack[k].i)
            [] stack[k].op = "splitPDF" ->
                 BarShows(splitBar, stack[k].i - stack[k].start)
    /\ (imgDone.op = "processImages" /\ ~imgDone.crashed) =>
          imgBar.value = imgBar.max
    /\ (pdfDone.op = "mergePDFs" /\ pdfDone.ok) =>
          mergeBar.value = mergeBar.max
    /\ (pdfDone.op = "splitPDF" /\ pdfDone.ok) =>
          splitBar.value = splitBar.max

\* while a batch stays in progress its bar does not go down
BarGrows ==
    /\ (InProgress("processImages") /\ InProgress("processImages")') =>
          imgBar'.value >= imgBar.value
    /\ (InProgress("mergePDFs") /\ InProgress("mergePDFs")') =>
          mergeBar'.value >= mergeBar.value
    /\ (InProgress("splitPDF") /\ InProgress("splitPDF")') =>
          splitBar'.value >= splitBar.value

\* C15 (as claimed): during every batch operation the progress bar value is
\* between 0 and the maximum, never decreases and equals the number of items
\* handled so far; when the operation ends without error it equals the
\* maximum.
C15_BarTracksProgress == []BarTracks /\ [][BarGrows]_vars

\* C10 (as claimed): performOCR hands easyocr only a screenshot that a
\* successful takeScreenshot of this session wrote; in every other case it
\* runs no OCR.
C10_OcrOnlyOnCapture == ocrInput \in {"none", "captured"}

====
